---------------------------- MODULE Spec2Model ----------------------------
(***************************************************************************)
(* Frame production and telemetry refresh of thermalright-lcd-control:     *)
(* FrameManager (device_controller/display/frame_manager.py) together with *)
(* WindowCapture (device_controller/display/window_capture.py) and         *)
(* DisplayConfig (device_controller/display/config.py).                    *)
(*                                                                         *)
(* Two threads act on one FrameManager: the polling thread (constructor,   *)
(* get_current_frame, get_current_metrics, cleanup) and the threading.Timer*)
(* threads that run _metrics_update_loop.  Statements of the two threads   *)
(* interleave at statement granularity.                                    *)
(*                                                                         *)
(* Time is in milliseconds.  A duration in seconds is kept as the exact    *)
(* fraction num/den, so 1.0/fps and duration_ms/1000.0 lose nothing.       *)
(***************************************************************************)
EXTENDS Integers, Sequences, FiniteSets, TLC

VARIABLES
    config,                 \* DisplayConfig plus the environment it is loaded in
    mgr,                    \* "new" | "constructed" | "failed" : outcome of __init__
    current_frame_index,    \* self.current_frame_index
    background_frames,      \* self.background_frames
    gif_durations,          \* self.gif_durations
    frame_duration,         \* self.frame_duration, seconds as [num, den]
    elapsed,                \* time.time() - self.frame_start_time, in ms
    metrics_thread,         \* self.metrics_thread: 0 is None, else a Timer id
    metrics_running,        \* self.metrics_running
    window_capture,         \* self.window_capture: a WindowCapture or NoCapture
    is_window_capture_mode, \* self.is_window_capture_mode
    current_metrics,        \* self.current_metrics
    timers,                 \* the threading.Timer objects and their threads
    cleanup_pc,             \* position of the polling thread inside cleanup()
    cleanup_returned,       \* cleanup() has returned at least once
    returned,               \* outcome of the last get_current_frame() call
    loop_logged,            \* the "looping back to start" line has been logged
    metrics_read,           \* value returned by the last get_current_metrics()
    capture_released,       \* number of WindowCapture.cleanup() calls made
    scaling,                \* the last WindowCapture._apply_scaling call: its
                            \* input, its locals and the image it returned
    grab,                   \* the capture attempts of the polls so far: how
                            \* the last one went and the last buffer a
                            \* capture delivered
    drift,                  \* wall clock against the authored timeline:
                            \* late is the time by which the advances made
                            \* so far trail load time plus the durations of
                            \* the frames shown, polled_at the value of
                            \* elapsed at the previous poll, widest the
                            \* longest time between two polls so far
    frame_info,             \* outcome of the last get_current_frame_info()
    imports,                \* what importing each required package gives here
    checks,                 \* SystemChecker.checks
    should_monitor,         \* IStripperManager.should_monitor
    monitor_thread,         \* IStripperManager.monitor_thread: the number of
                            \* the Thread it refers to, 0 for None
    is_running,             \* IStripperManager.is_running
    on_started_callback,    \* TRUE when a callable is registered
    on_stopped_callback,    \* TRUE when a callable is registered
    monitor_loops,          \* the _monitor_loop threads: position and locals
    process_running,        \* an iStripper process exists
    caller,                 \* the thread calling start/stop_monitoring:
                            \* idle, or joining inside stop_monitoring()
    stopped                 \* stop_monitoring() has returned and
                            \* start_monitoring() was not called since

vars == <<config, mgr, current_frame_index, background_frames, gif_durations,
          frame_duration, elapsed, metrics_thread, metrics_running,
          window_capture, is_window_capture_mode, current_metrics, timers,
          cleanup_pc, cleanup_returned, returned, loop_logged, metrics_read,
          capture_released, scaling, drift, grab, frame_info, imports, checks,
          should_monitor, monitor_thread, is_running, on_started_callback,
          on_stopped_callback, monitor_loops, process_running, caller, stopped>>

\* what the constructor, the polls, cleanup() and the timer threads leave alone
checker_vars == <<imports, checks>>

monitor_vars == <<should_monitor, monitor_thread, is_running, on_started_callback,
                  on_stopped_callback, monitor_loops, process_running, caller,
                  stopped>>

other_vars == <<frame_info, checker_vars, monitor_vars>>

frame_vars == <<current_frame_index, background_frames, gif_durations,
                frame_duration, elapsed, window_capture,
                is_window_capture_mode, returned, loop_logged,
                capture_released, scaling, drift, grab, other_vars>>

telemetry_vars == <<metrics_thread, metrics_running, current_metrics, timers>>

---------------------------------------------------------------------------
(* Bounds of the model *)

\* longest frame set (GIF frames, video frames, collection files)
MaxFrames == 2

\* number of threading.Timer objects that may be created
MaxTimers == 2

\* lateness in ms beyond which the drift is no longer told apart
MaxLate == 400

---------------------------------------------------------------------------
(* Program constants *)

\* DisplayConfig.output_width / output_height defaults
output_width == 320
output_height == 240

\* FrameManager.DEFAULT_FRAME_DURATION, seconds
DEFAULT_FRAME_DURATION == 2

\* fallback frame rate of _load_video when the file reports fps <= 0
FALLBACK_FPS == 30

\* default of frame.info.get('duration', 100), milliseconds
GIF_DEFAULT_MS == 100

\* WindowCapture.__init__ default scale_factor 1.0, in percent
DEFAULT_SCALE == 100

\* elapsed times (ms since frame_start_time) at which the clock is sampled;
\* 2000 ms is DEFAULT_FRAME_DURATION, 200 ms is 1/5 s, 100 ms is 1/10 s,
\* 20 and 50 bracket 1/30 s
TimePoints == {0, 20, 50, 100, 150, 200, 1999, 2000, 2001}

MaxElapsed == CHOOSE m \in TimePoints : \A e \in TimePoints : e <= m

\* authored GIF frame durations in ms; -1 stands for a frame without the key
GifMs == {-1, 0, 200}

\* frame rates a video file may report
VideoFps == {0, 10}

\* sizes and modes of decoded or grabbed images before any resizing
RawImages == { [w |-> 640, h |-> 480, mode |-> "RGB"],
               [w |-> 100, h |-> 100, mode |-> "P"],
               [w |-> 320, h |-> 240, mode |-> "RGBA"] }

\* scale factors in percent (0.5, 1.0, 1.5, 2.0)
ScaleFactors == {50, 100, 150, 200}

\* scale factors in percent a caller may hand to WindowCapture directly
ScalePoints == {1, 33, 50, 75, 100, 125, 150, 200, 250}

\* target sizes (target_width, target_height) of a WindowCapture
TargetSizes == {<<320, 240>>, <<480, 480>>, <<50, 50>>}

---------------------------------------------------------------------------
(* Pixel buffers: size, mode and where the pixels come from *)

Buffer(w, h, mode, origin, idx) ==
    [w |-> w, h |-> h, mode |-> mode, origin |-> origin, idx |-> idx]

\* Python's None where an image is expected
NoImage == Buffer(0, 0, "None", "None", 0)

\* an exception raised while producing an image
ImageError == Buffer(0, 0, "Error", "Error", 0)

\* Image.resize((w, h)): Pillow rejects sizes below 1
resize(img, w, h) ==
    IF w < 1 \/ h < 1 THEN ImageError
    ELSE [img EXCEPT !.w = w, !.h = h]

\* Image.convert('RGBA')
convert_rgba(img) == [img EXCEPT !.mode = "RGBA"]

\* Image.crop((left, top, right, bottom))
crop(img, left, top, right, bottom) ==
    [img EXCEPT !.w = right - left, !.h = bottom - top]

\* Image.new('RGBA', (w, h), (0, 0, 0, 255))
black_image(w, h) == Buffer(w, h, "RGBA", "black", 0)

\* result.paste(img, (x, y)): the canvas keeps its size and mode
paste(result, img, x, y) == [result EXCEPT !.origin = img.origin, !.idx = img.idx]

\* FrameManager._resize_image
_resize_image(image) ==
    LET r == resize(image, config.output_width, config.output_height) IN
    IF r.mode # "RGBA" THEN convert_rgba(r) ELSE r

\* a decoded source image number i with raw size and mode raw
Decoded(raw, i) == Buffer(raw.w, raw.h, raw.mode, "file", i)

---------------------------------------------------------------------------
(* Durations *)

Seconds(n, d) == [num |-> n, den |-> d]

\* current_time - self.frame_start_time >= self.frame_duration
Due(e, dur) == e * dur.den >= dur.num * 1000

\* FrameManager._gif_duration: info.get('duration', 100) / 1000.0
_gif_duration(ms) ==
    IF ms = -1 THEN Seconds(GIF_DEFAULT_MS, 1000) ELSE Seconds(ms, 1000)

---------------------------------------------------------------------------
(* Configurations: the DisplayConfig fields FrameManager reads, and the     *)
(* files, libraries and windows it finds when it loads them                 *)

BaseConfig ==
    [ background_type    |-> "IMAGE",   \* BackgroundType
      output_width       |-> output_width,
      output_height      |-> output_height,
      scale_factor       |-> DEFAULT_SCALE,  \* DisplayConfig.scale_factor, percent
      has_title          |-> FALSE,     \* window_title is set and not empty
      capture_fps        |-> 30,        \* DisplayConfig.capture_fps
      n_metrics          |-> 0,         \* len(metrics_configs)
      path_exists        |-> TRUE,      \* os.path.exists / os.path.isdir
      image_ok           |-> TRUE,      \* Image.open decodes the file(s)
      ext_supported      |-> FALSE,     \* extension in SUPPORTED_VIDEO_FORMATS
      has_opencv         |-> TRUE,      \* HAS_OPENCV
      video_opened       |-> TRUE,      \* VideoCapture.isOpened()
      fps                |-> 0,         \* CAP_PROP_FPS
      frame_count        |-> 0,         \* CAP_PROP_FRAME_COUNT
      readable           |-> 0,         \* frames read() delivers before failing
      gif_ms             |-> <<>>,      \* authored duration of each GIF frame
      n_files            |-> 0,         \* image files found in the directory
      has_window_capture |-> TRUE,      \* HAS_WINDOW_CAPTURE
      platform           |-> "linux",   \* is_windows() / is_linux()
      has_mss            |-> FALSE,     \* import mss succeeds
      has_pygetwindow    |-> FALSE,     \* import pygetwindow succeeds
      has_xlib           |-> FALSE,     \* import Xlib succeeds
      window_exists      |-> FALSE ]    \* a window with the title can exist

SeqsUpTo(S, n) == UNION { [1..k -> S] : k \in 1..n }

ImageConfigs ==
    { [BaseConfig EXCEPT !.path_exists = pe, !.image_ok = ok] :
        pe \in BOOLEAN, ok \in BOOLEAN }

GifConfigs ==
    { [BaseConfig EXCEPT !.background_type = "GIF", !.path_exists = pe,
                         !.image_ok = pe, !.gif_ms = <<0>>] : pe \in BOOLEAN }
    \cup { [BaseConfig EXCEPT !.background_type = "GIF", !.image_ok = FALSE] }
    \cup { [BaseConfig EXCEPT !.background_type = "GIF", !.gif_ms = ds] :
            ds \in SeqsUpTo(GifMs, MaxFrames) }

VideoConfigs ==
    { [BaseConfig EXCEPT !.background_type = "VIDEO", !.ext_supported = TRUE,
                         !.path_exists = FALSE] }
    \cup { [BaseConfig EXCEPT !.background_type = "VIDEO", !.has_opencv = cv,
                              !.ext_supported = ~cv, !.image_ok = ok,
                              !.path_exists = pe] :
            cv \in BOOLEAN, ok \in BOOLEAN, pe \in BOOLEAN }
    \cup { [BaseConfig EXCEPT !.background_type = "VIDEO", !.ext_supported = TRUE,
                              !.video_opened = FALSE] }
    \cup { [BaseConfig EXCEPT !.background_type = "VIDEO", !.ext_supported = TRUE,
                              !.image_ok = FALSE, !.fps = f,
                              !.frame_count = n, !.readable = r] :
            f \in VideoFps, n \in 0..MaxFrames, r \in 0..MaxFrames }

CollectionConfigs ==
    { [BaseConfig EXCEPT !.background_type = "IMAGE_COLLECTION",
                         !.path_exists = FALSE] }
    \cup { [BaseConfig EXCEPT !.background_type = "IMAGE_COLLECTION",
                              !.n_files = n, !.image_ok = ok] :
            n \in 0..MaxFrames, ok \in BOOLEAN }

CaptureBase ==
    [BaseConfig EXCEPT !.background_type = "WINDOW_CAPTURE", !.has_title = TRUE,
                       !.capture_fps = 5, !.has_xlib = TRUE,
                       !.window_exists = TRUE]

WindowCaptureConfigs ==
    { [CaptureBase EXCEPT !.has_window_capture = FALSE],
      [CaptureBase EXCEPT !.has_title = FALSE],
      [CaptureBase EXCEPT !.capture_fps = 0],
      [CaptureBase EXCEPT !.capture_fps = 30],
      [CaptureBase EXCEPT !.platform = "other"],
      [CaptureBase EXCEPT !.has_xlib = FALSE] }
    \cup { [CaptureBase EXCEPT !.scale_factor = s] : s \in ScaleFactors }
    \cup { [CaptureBase EXCEPT !.window_exists = we, !.platform = "windows",
                               !.has_xlib = FALSE, !.has_mss = m,
                               !.has_pygetwindow = g] :
            we \in BOOLEAN, m \in BOOLEAN, g \in BOOLEAN }
    \cup { [CaptureBase EXCEPT !.window_exists = FALSE] }

\* configurations with metric overlays, which start the telemetry timer
MetricsConfigs ==
    { [BaseConfig EXCEPT !.n_metrics = 1, !.path_exists = pe] : pe \in BOOLEAN }
    \cup { [CaptureBase EXCEPT !.n_metrics = 1, !.has_mss = TRUE,
                               !.platform = "windows", !.has_pygetwindow = TRUE] }

Configs == ImageConfigs \cup GifConfigs \cup VideoConfigs \cup CollectionConfigs
           \cup WindowCaptureConfigs \cup MetricsConfigs

---------------------------------------------------------------------------
(* WindowCapture *)

NoCapture == [backend |-> "None", scale_factor |-> 0, target_width |-> 0,
              target_height |-> 0, fps |-> 0]

\* WindowCapture.__init__ raised
CaptureError == [NoCapture EXCEPT !.backend = "Error"]

\* WindowCapture._initialize_capture_backend: the backend name, or "Error"
_initialize_capture_backend ==
    IF config.platform = "windows"
    THEN IF config.has_mss THEN "mss"
         ELSE IF config.has_pygetwindow THEN "pygetwindow"
         ELSE "Error"
    ELSE IF config.platform = "linux"
    THEN IF config.has_xlib THEN "xlib" ELSE "Error"
    ELSE "Error"

\* WindowCapture.__init__(window_title, target_width, target_height, fps, scale_factor)
WindowCapture_init(target_width, target_height, fps, scale_factor) ==
    IF fps = 0 THEN CaptureError                     \* 1.0 / fps
    ELSE IF _initialize_capture_backend = "Error" THEN CaptureError
    ELSE [backend |-> _initialize_capture_backend, scale_factor |-> scale_factor,
          target_width |-> target_width, target_height |-> target_height,
          fps |-> fps]

\* WindowCapture.find_window: can the lookup of this backend find the window
find_window(wc, present) ==
    CASE wc.backend = "mss"         -> config.has_pygetwindow /\ present
      [] wc.backend = "pygetwindow" -> config.has_pygetwindow /\ present
      [] wc.backend = "xlib"        -> present
      [] OTHER                      -> FALSE

\* _apply_scaling with the final resize of the unscaled case left out
_apply_scaling_unresized(wc, img) ==
    IF wc.scale_factor = 100 THEN convert_rgba(img)
    ELSE convert_rgba(resize(img, (wc.target_width * wc.scale_factor) \div 100,
                             (wc.target_height * wc.scale_factor) \div 100))

\* what one _apply_scaling call did: the branch taken, the scaled size, the
\* crop or paste origin, the canvas pasted on and the image returned
ScalingSteps(op, scaled_width, scaled_height, x, y, canvas, img) ==
    [op |-> op, scaled_width |-> scaled_width, scaled_height |-> scaled_height,
     x |-> x, y |-> y, canvas |-> canvas,
     img |-> IF img \in {ImageError, NoImage} THEN img
             ELSE IF img.mode # "RGBA" THEN convert_rgba(img) ELSE img]

\* a scale transform that crops and pastes at the top left corner
_apply_scaling_steps_TopLeft(wc, img) ==
    LET scaled_width  == (wc.target_width * wc.scale_factor) \div 100
        scaled_height == (wc.target_height * wc.scale_factor) \div 100
        scaled == resize(img, scaled_width, scaled_height)
        result == black_image(wc.target_width, wc.target_height)
    IN  IF wc.scale_factor # 100
        THEN IF scaled = ImageError
             THEN ScalingSteps("raise", scaled_width, scaled_height, 0, 0,
                               NoImage, ImageError)
             ELSE IF wc.scale_factor > 100
             THEN ScalingSteps("crop", scaled_width, scaled_height, 0, 0, NoImage,
                               crop(scaled, 0, 0, wc.target_width, wc.target_height))
             ELSE ScalingSteps("paste", scaled_width, scaled_height, 0, 0,
                               result, paste(result, scaled, 0, 0))
        ELSE ScalingSteps("resize", wc.target_width, wc.target_height, 0, 0, NoImage,
                          resize(img, wc.target_width, wc.target_height))

\* WindowCapture._apply_scaling, statement by statement; int(x * scale) is
\* x * percent \div 100, and a resize to a size below 1 raises
_apply_scaling_steps(wc, img) ==
    LET scaled_width  == (wc.target_width * wc.scale_factor) \div 100
        scaled_height == (wc.target_height * wc.scale_factor) \div 100
        scaled == resize(img, scaled_width, scaled_height)
        left == (scaled_width - wc.target_width) \div 2
        top  == (scaled_height - wc.target_height) \div 2
        result == black_image(wc.target_width, wc.target_height)
        paste_x == (wc.target_width - scaled_width) \div 2
        paste_y == (wc.target_height - scaled_height) \div 2
    IN  IF wc.scale_factor # 100
        THEN IF scaled = ImageError
             THEN ScalingSteps("raise", scaled_width, scaled_height, 0, 0,
                               NoImage, ImageError)
             ELSE IF wc.scale_factor > 100
             THEN ScalingSteps("crop", scaled_width, scaled_height, left, top, NoImage,
                               crop(scaled, left, top, left + wc.target_width,
                                    top + wc.target_height))
             ELSE ScalingSteps("paste", scaled_width, scaled_height, paste_x, paste_y,
                               result, paste(result, scaled, paste_x, paste_y))
        ELSE ScalingSteps("resize", wc.target_width, wc.target_height, 0, 0, NoImage,
                          resize(img, wc.target_width, wc.target_height))

\* WindowCapture._apply_scaling: the image it returns
_apply_scaling(wc, img) == _apply_scaling_steps(wc, img).img

\* WindowCapture.capture_frame: the scaled image, or NoImage for None.
\* present: the window is on screen now; grabbed: the platform grab succeeded
capture_frame(wc, present, grabbed, raw) ==
    IF ~find_window(wc, present) THEN NoImage
    ELSE IF ~grabbed THEN NoImage
    ELSE LET img == _apply_scaling(wc, Buffer(raw.w, raw.h, raw.mode, "capture", 0))
         IN  IF img = ImageError THEN NoImage ELSE img

---------------------------------------------------------------------------
(* Loading the background.  A loader yields the fields it sets, or ok =     *)
(* FALSE when it raises.  raws[i] is the size and mode of the i-th decoded  *)
(* source image.                                                            *)

Loaded(frames, durations, duration, wc, mode) ==
    [ok |-> TRUE, background_frames |-> frames, gif_durations |-> durations,
     frame_duration |-> duration, window_capture |-> wc,
     is_window_capture_mode |-> mode]

LoadError ==
    [Loaded(<<>>, <<>>, Seconds(DEFAULT_FRAME_DURATION, 1), NoCapture, FALSE)
        EXCEPT !.ok = FALSE]

\* FrameManager._load_static_image
_load_static_image(raws) ==
    IF ~config.path_exists THEN LoadError
    ELSE IF ~config.image_ok THEN LoadError
    ELSE Loaded(<<_resize_image(Decoded(raws[1], 0))>>, <<>>,
                Seconds(DEFAULT_FRAME_DURATION, 1), NoCapture, FALSE)

\* FrameManager._load_gif
_load_gif(raws) ==
    IF ~config.path_exists THEN LoadError
    ELSE IF ~config.image_ok THEN LoadError
    ELSE LET n == Len(config.gif_ms)
             durations == [i \in 1..n |-> _gif_duration(config.gif_ms[i])]
         IN  IF n = 0 THEN LoadError                 \* self.gif_durations[0]
             ELSE Loaded([i \in 1..n |-> _resize_image(Decoded(raws[i], i - 1))],
                         durations, durations[1], NoCapture, FALSE)

\* FrameManager._load_video
_load_video(raws) ==
    IF ~config.path_exists THEN LoadError
    ELSE IF ~config.has_opencv THEN LoadError
    ELSE IF ~config.ext_supported THEN LoadError
    ELSE IF ~config.video_opened THEN LoadError
    ELSE LET n == IF config.readable < config.frame_count
                  THEN config.readable ELSE config.frame_count
         IN  Loaded([i \in 1..n |->
                        _resize_image(Buffer(raws[i].w, raws[i].h, "RGB", "file", i - 1))],
                    <<>>,
                    IF config.fps > 0 THEN Seconds(1, config.fps)
                                      ELSE Seconds(1, FALLBACK_FPS),
                    NoCapture, FALSE)

\* FrameManager._load_image_collection
_load_image_collection(raws) ==
    IF ~config.path_exists THEN LoadError
    ELSE IF config.n_files = 0 THEN LoadError
    ELSE IF ~config.image_ok THEN LoadError
    ELSE Loaded([i \in 1..config.n_files |-> _resize_image(Decoded(raws[i], i - 1))],
                <<>>, Seconds(DEFAULT_FRAME_DURATION, 1), NoCapture, FALSE)

\* a window capture loader that does not look at the window title
_load_window_capture_AnyTitle ==
    IF ~config.has_window_capture THEN LoadError
    ELSE LET wc == WindowCapture_init(config.output_width, config.output_height,
                                      config.capture_fps, DEFAULT_SCALE)
         IN  IF wc = CaptureError THEN LoadError
             ELSE Loaded(<<black_image(config.output_width, config.output_height)>>,
                         <<>>, Seconds(1, config.capture_fps), wc, TRUE)

\* FrameManager._load_window_capture
_load_window_capture ==
    IF ~config.has_window_capture THEN LoadError
    ELSE IF ~config.has_title THEN LoadError
    ELSE LET wc == WindowCapture_init(config.output_width, config.output_height,
                                      config.capture_fps, DEFAULT_SCALE)
         IN  IF wc = CaptureError THEN LoadError
             ELSE Loaded(<<black_image(config.output_width, config.output_height)>>,
                         <<>>, Seconds(1, config.capture_fps), wc, TRUE)

\* a loader that hands every video configuration to the video decoder
_load_background_VideoDecoderOnly(raws) ==
    CASE config.background_type = "IMAGE" -> _load_static_image(raws)
      [] config.background_type = "GIF" -> _load_gif(raws)
      [] config.background_type = "VIDEO" -> _load_video(raws)
      [] config.background_type = "IMAGE_COLLECTION" -> _load_image_collection(raws)
      [] config.background_type = "WINDOW_CAPTURE" -> _load_window_capture

\* FrameManager._load_background
_load_background(raws) ==
    CASE config.background_type = "IMAGE" -> _load_static_image(raws)
      [] config.background_type = "GIF" -> _load_gif(raws)
      [] config.background_type = "VIDEO" ->
            IF config.has_opencv /\ config.ext_supported
            THEN _load_video(raws) ELSE _load_static_image(raws)
      [] config.background_type = "IMAGE_COLLECTION" -> _load_image_collection(raws)
      [] config.background_type = "WINDOW_CAPTURE" -> _load_window_capture

---------------------------------------------------------------------------
(* Telemetry snapshots and timers *)

\* a snapshot: the collection cycle its CPU fields and its GPU fields come from
Snapshot(c, g) == [cpu |-> c, gpu |-> g]

\* the empty dict {} of a manager without metric overlays
EmptyMetrics == Snapshot(-1, -1)

TimerIds == 1..MaxTimers

\* a threading.Timer: st is its life cycle, the rest are the locals of the
\* _metrics_update_loop call it runs
NewTimer == [st |-> "unused", cpu_data |-> -1, new_metrics |-> EmptyMetrics]

Running == {"collect_cpu", "collect_gpu", "publish", "check", "create", "start"}

\* Timer.cancel(): a timer that has not fired yet never will
cancel(t) ==
    IF timers[t].st \in {"created", "pending"}
    THEN [timers EXCEPT ![t].st = "cancelled"]
    ELSE timers

---------------------------------------------------------------------------
(* SystemChecker.check_dependencies (diagnostics/system_checker.py)         *)

\* longest list of checks a SystemChecker collects in the model
MaxChecks == 2

\* required_packages, lines 98-105: (import name, pip package name)
required_packages ==
    << <<"PySide6", "PySide6">>, <<"psutil", "psutil">>, <<"cv2", "opencv-python">>,
       <<"usb", "pyusb">>, <<"PIL", "pillow">>, <<"yaml", "pyyaml">> >>

\* every module check_dependencies imports
ImportNames == { required_packages[i][1] : i \in 1..Len(required_packages) } \cup {"hid"}

\* the substrings line 120 looks for in the ImportError text of hid
NativeMarkers == {"hidapi", "dll", "library", ".so", "dylib"}

\* an import outcome: ok, or ImportError with the markers its text contains
Imported == [ok |-> TRUE, err |-> {}]
ImportError(markers) == [ok |-> FALSE, err |-> markers]

\* ImportError texts: "No module named 'hid'", "hidapi.dll not found",
\* "Unable to load any of the following libraries: libhidapi-hidraw.so ..."
ErrTexts == { {}, {"hidapi", "dll"}, {"hidapi", "dll", "library", ".so"} }

\* the environments check_dependencies may run in
ImportOutcomes ==
    { f \in [ImportNames -> {Imported} \cup { ImportError(m) : m \in ErrTexts }] :
        \A p \in ImportNames \ {"hid"} : f[p].err = {} }

\* the display label of hid when its native library is missing, line 121
NativeLabel == "hid (native hidapi library missing - see fix hint below)"

DiagnosticCheck(name, passed, message, fix_hint) ==
    [name |-> name, passed |-> passed, message |-> message, fix_hint |-> fix_hint]

\* lines 108-113: the (label, pip name) pairs of the packages that fail
RECURSIVE MissingRequired(_, _)
MissingRequired(env, i) ==
    IF i > Len(required_packages) THEN <<>>
    ELSE LET package_name == required_packages[i][2]
             rest == MissingRequired(env, i + 1)
         IN  IF env[required_packages[i][1]].ok THEN rest
             ELSE << <<package_name, package_name>> >> \o rest

\* lines 117-124: hid, which may be installed yet fail to load hidapi
MissingHid(env) ==
    IF env["hid"].ok THEN <<>>
    ELSE IF env["hid"].err \cap NativeMarkers # {}
    THEN << <<NativeLabel, "hid">> >>
    ELSE << <<"hid", "hid">> >>

\* a dependency check whose fix hint repeats the display labels
check_dependencies_HintFromLabels(list, env) ==
    LET missing == MissingRequired(env, 1) \o MissingHid(env) IN
    IF missing = <<>>
    THEN Append(list, DiagnosticCheck("Required Dependencies", TRUE,
                    [text |-> "All required packages are installed", names |-> <<>>],
                    [text |-> "None", names |-> <<>>]))
    ELSE Append(list, DiagnosticCheck("Required Dependencies", FALSE,
                    [text |-> "Missing packages: ",
                     names |-> [i \in 1..Len(missing) |-> missing[i][1]]],
                    [text |-> "Install with: pip install ",
                     names |-> [i \in 1..Len(missing) |-> missing[i][1]]]))

\* SystemChecker.check_dependencies: self.checks after the call.  A message
\* is its fixed text and the names joined into it.
check_dependencies(list, env) ==
    LET missing == MissingRequired(env, 1) \o MissingHid(env) IN
    IF missing = <<>>
    THEN Append(list, DiagnosticCheck("Required Dependencies", TRUE,
                    [text |-> "All required packages are installed", names |-> <<>>],
                    [text |-> "None", names |-> <<>>]))
    ELSE Append(list, DiagnosticCheck("Required Dependencies", FALSE,
                    [text |-> "Missing packages: ",
                     names |-> [i \in 1..Len(missing) |-> missing[i][1]]],
                    [text |-> "Install with: pip install ",
                     names |-> [i \in 1..Len(missing) |-> missing[i][2]]]))

\* SystemChecker.check_python_version: self.checks after the call
check_python_version(list, recent) ==
    IF recent
    THEN Append(list, DiagnosticCheck("Python Version", TRUE,
                    [text |-> "Python (required: 3.10+)", names |-> <<>>],
                    [text |-> "None", names |-> <<>>]))
    ELSE Append(list, DiagnosticCheck("Python Version", FALSE,
                    [text |-> "Python is too old", names |-> <<>>],
                    [text |-> "Install Python 3.10 or higher from python.org",
                     names |-> <<>>]))

---------------------------------------------------------------------------
(* Initial state: a configuration has been chosen, FrameManager(config) has *)
(* not run yet.  The fields hold the values __init__ first assigns.         *)

\* no get_current_frame_info() call has been made
NoInfo == [kind |-> "none", index |-> 0, display_duration |-> Seconds(0, 1)]

\* SystemChecker.__init__ where every required package imports
CheckerIdle ==
    /\ imports = [p \in ImportNames |-> Imported]
    /\ checks = <<>>

\* most monitor threads ever started
MaxLoops == 2

LoopIds == 1..MaxLoops

\* a Thread(target=self._monitor_loop) not created yet
NoLoop == [pc |-> "unused", last_state |-> FALSE, current_state |-> FALSE]

\* IStripperManager.__init__, lines 42-48
ManagerFields ==
    /\ is_running = FALSE
    /\ monitor_thread = 0
    /\ should_monitor = FALSE
    /\ on_started_callback = FALSE
    /\ on_stopped_callback = FALSE
    /\ monitor_loops = [l \in LoopIds |-> NoLoop]
    /\ caller = "idle"
    /\ stopped = FALSE

\* an IStripperManager nobody monitors with, no iStripper process
MonitorIdle ==
    /\ ManagerFields
    /\ process_running = FALSE

\* the calls nobody has made yet
OtherInit ==
    /\ frame_info = NoInfo
    /\ CheckerIdle
    /\ MonitorIdle

\* no poll has attempted a capture yet
NoGrab == [polls |-> 0, due |-> FALSE, ok |-> FALSE, last_good |-> NoImage]

\* nothing shown yet: no lateness, no poll since load
OnTime == [late |-> 0, polled_at |-> 0, widest |-> 0]

\* no _apply_scaling call has been observed
NoScaling ==
    [input |-> NoImage, steps |-> ScalingSteps("none", 0, 0, 0, 0, NoImage, NoImage)]

\* what a get_current_frame() call gave: kind is "frame" or the exception it
\* raised, due tells whether it found the frame interval elapsed
NoResult == [kind |-> "none", frame |-> NoImage, due |-> FALSE]

\* the fields of a FrameManager before __init__ has run
ManagerInit ==
    /\ mgr = "new"
    /\ current_frame_index = 0
    /\ background_frames = <<>>
    /\ gif_durations = <<>>
    /\ frame_duration = Seconds(DEFAULT_FRAME_DURATION, 1)
    /\ elapsed = MaxElapsed                  \* frame_start_time = 0
    /\ metrics_thread = 0
    /\ metrics_running = FALSE
    /\ window_capture = NoCapture
    /\ is_window_capture_mode = FALSE
    /\ current_metrics = EmptyMetrics
    /\ timers = [t \in TimerIds |-> NewTimer]
    /\ cleanup_pc = "idle"
    /\ cleanup_returned = FALSE
    /\ returned = NoResult
    /\ loop_logged = FALSE
    /\ metrics_read = EmptyMetrics
    /\ capture_released = 0
    /\ scaling = NoScaling
    /\ drift = OnTime
    /\ grab = NoGrab

Init ==
    /\ config \in Configs
    /\ ManagerInit
    /\ OtherInit

---------------------------------------------------------------------------
(* The polling thread *)

\* FrameManager._start_metrics_update: a new Timer, started
_start_metrics_update ==
    /\ metrics_running' = TRUE
    /\ metrics_thread' = 1
    /\ timers' = [timers EXCEPT ![1].st = "pending"]

\* a constructor that sets up telemetry whatever the overlay list holds
HasMetricsConfigs_Always == TRUE

\* __init__, line 59: len(config.metrics_configs) != 0
HasMetricsConfigs == config.n_metrics # 0

\* FrameManager.__init__, with _load_background.  collected: the collectors
\* answer the constructor's own _get_current_metric() call
Construct ==
    /\ mgr = "new"
    /\ \E raws \in [1..MaxFrames -> RawImages], collected \in BOOLEAN :
        IF HasMetricsConfigs /\ ~collected
        THEN /\ mgr' = "failed"
             /\ UNCHANGED <<frame_vars, telemetry_vars>>
        ELSE /\ IF HasMetricsConfigs
                THEN /\ current_metrics' = Snapshot(0, 0)
                     /\ _start_metrics_update
                ELSE /\ current_metrics' = EmptyMetrics
                     /\ metrics_running' = FALSE
                     /\ UNCHANGED <<metrics_thread, timers>>
             /\ LET r == _load_background(raws) IN
                IF r.ok
                THEN /\ mgr' = "constructed"
                     /\ background_frames' = r.background_frames
                     /\ gif_durations' = r.gif_durations
                     /\ frame_duration' = r.frame_duration
                     /\ window_capture' = r.window_capture
                     /\ is_window_capture_mode' = r.is_window_capture_mode
                     /\ elapsed' = 0         \* frame_start_time = time.time()
                     /\ UNCHANGED <<current_frame_index, returned, loop_logged,
                                    capture_released, scaling, drift, grab,
                                    other_vars>>
                ELSE /\ mgr' = "failed"
                     /\ UNCHANGED frame_vars
    /\ UNCHANGED <<config, cleanup_pc, cleanup_returned, metrics_read>>

\* the wall clock moves on to a later sample point
Tick ==
    /\ mgr = "constructed"
    /\ \E e \in TimePoints : e > elapsed /\ elapsed' = e
    /\ UNCHANGED <<config, mgr, current_frame_index, background_frames,
                   gif_durations, frame_duration, window_capture,
                   is_window_capture_mode, returned, loop_logged,
                   telemetry_vars, cleanup_pc, cleanup_returned, metrics_read,
                   capture_released, scaling, drift, grab, other_vars>>

Frame(img, due) == [kind |-> "frame", frame |-> img, due |-> due]

Raised(exc, due) == [kind |-> exc, frame |-> NoImage, due |-> due]

\* a capture branch that shows the buffer of the previous poll again when
\* the capture delivers nothing
CaptureBranch_KeepLast(present, grabbed, raw) ==
    LET captured_frame == capture_frame(window_capture, present, grabbed, raw)
        due == Due(elapsed, frame_duration)
    IN
    /\ IF due THEN elapsed' = 0 ELSE UNCHANGED elapsed
    /\ returned' = IF captured_frame # NoImage
                   THEN Frame(captured_frame, due)
                   ELSE IF returned.kind = "frame"
                   THEN Frame(returned.frame, due)
                   ELSE Frame(background_frames[1], due)
    /\ UNCHANGED <<current_frame_index, frame_duration, loop_logged>>

\* the capture branch without the "or self.background_frames[0]" of line 354
CaptureBranch_NoFallback(present, grabbed, raw) ==
    LET captured_frame == capture_frame(window_capture, present, grabbed, raw)
        due == Due(elapsed, frame_duration)
    IN
    /\ IF due THEN elapsed' = 0 ELSE UNCHANGED elapsed
    /\ returned' = IF captured_frame # NoImage \/ ~due
                   THEN Frame(captured_frame, due)
                   ELSE Frame(background_frames[1], due)
    /\ UNCHANGED <<current_frame_index, frame_duration, loop_logged>>

\* get_current_frame, the window capture branch (lines 334-354)
CaptureBranch(present, grabbed, raw) ==
    LET captured_frame == capture_frame(window_capture, present, grabbed, raw)
        due == Due(elapsed, frame_duration)
    IN
    /\ IF due THEN elapsed' = 0 ELSE UNCHANGED elapsed
    /\ returned' = IF captured_frame # NoImage
                   THEN Frame(captured_frame, due)
                   ELSE Frame(background_frames[1], due)
    /\ UNCHANGED <<current_frame_index, frame_duration, loop_logged>>

\* the next index of a schedule that catches up: one position for every
\* whole frame duration that has elapsed
NextIndex_CatchUp(i, n) ==
    (i + (elapsed * frame_duration.den) \div (frame_duration.num * 1000)) % n

\* the next index without the wraparound: the last frame is kept
NextIndex_NoWrap(i, n) == IF i + 1 < n THEN i + 1 ELSE i

\* the next index without the modulo
NextIndex_NoModulo(i, n) == i + 1

\* the next index: (current_frame_index + 1) % len(background_frames)
NextIndex(i, n) == (i + 1) % n

\* a GIF poll that keeps the duration of the frame it has just left
EnteredDuration_OfFrameLeft(previous_index, index) == gif_durations[previous_index + 1]

\* get_current_frame, lines 372-373: the duration of the frame now shown
EnteredDuration(previous_index, index) == gif_durations[index + 1]

\* get_current_frame, the standard media branch (lines 356-375)
MediaBranch ==
    LET n == Len(background_frames)
        due == Due(elapsed, frame_duration)
        index == IF due THEN NextIndex(current_frame_index, n)
                        ELSE current_frame_index
    IN
    /\ IF due THEN elapsed' = 0 ELSE UNCHANGED elapsed
    /\ IF due /\ n = 0
       THEN /\ returned' = Raised("ZeroDivisionError", due)
            /\ UNCHANGED <<current_frame_index, frame_duration, loop_logged>>
       ELSE /\ current_frame_index' = index
            /\ loop_logged' = (loop_logged \/ (due /\ current_frame_index > 0 /\ index = 0))
            /\ IF config.background_type = "GIF" /\ index < Len(gif_durations)
               THEN frame_duration' = EnteredDuration(current_frame_index, index)
               ELSE UNCHANGED frame_duration
            /\ returned' = IF config.background_type = "GIF"
                               /\ index >= Len(gif_durations)
                           THEN Raised("IndexError", due)       \* line 373
                           ELSE IF index < n
                           THEN Frame(background_frames[index + 1], due)
                           ELSE Raised("IndexError", due)       \* line 375

\* FrameManager.get_current_frame
get_current_frame ==
    /\ mgr = "constructed"
    /\ cleanup_pc = "idle"
    /\ IF is_window_capture_mode /\ window_capture # NoCapture
       THEN \E present \in {FALSE, config.window_exists}, grabbed \in BOOLEAN,
               raw \in RawImages : CaptureBranch(present, grabbed, raw)
       ELSE MediaBranch
    /\ UNCHANGED <<config, mgr, background_frames, gif_durations, window_capture,
                   is_window_capture_mode, telemetry_vars, cleanup_pc,
                   cleanup_returned, metrics_read, capture_released, scaling,
                   other_vars>>

\* a get_current_frame() call nobody times
GetCurrentFrame == get_current_frame /\ UNCHANGED <<drift, grab>>

\* a frame duration in whole milliseconds
Milliseconds(dur) == (dur.num * 1000) \div dur.den

\* a time span in ms, told apart up to MaxLate
UpToMaxLate(ms) == IF ms < MaxLate THEN ms ELSE MaxLate

\* a get_current_frame() call of a materialized source, timed from outside:
\* an advance made elapsed ms after the previous one comes
\* elapsed - frame_duration later than the timeline asks for, and line 359
\* restarts the interval at the time of the poll
TimedPoll ==
    /\ ~is_window_capture_mode
    /\ get_current_frame
    /\ UNCHANGED grab
    /\ LET gap == elapsed - drift.polled_at
           advance == Due(elapsed, frame_duration) /\ Len(background_frames) > 0
       IN  drift' =
            [late |-> IF advance
                      THEN UpToMaxLate(drift.late + (elapsed - Milliseconds(frame_duration)))
                      ELSE drift.late,
             polled_at |-> IF advance THEN 0 ELSE elapsed,
             widest |-> IF gap > drift.widest THEN UpToMaxLate(gap) ELSE drift.widest]

\* __init__ (lines 42-74) assigns no wait_duration, nor does any other
\* method or the class body: the instance never has that attribute
has_wait_duration == FALSE

\* FrameManager.get_current_frame_info: line 384 reads self.wait_duration
\* first; a manager without the attribute raises AttributeError, one with a
\* falsy value gives (current_frame_index, frame_duration)
GetCurrentFrameInfo ==
    /\ mgr = "constructed"
    /\ cleanup_pc = "idle"
    /\ frame_info' =
        IF ~has_wait_duration
        THEN [NoInfo EXCEPT !.kind = "AttributeError"]
        ELSE [kind |-> "info", index |-> current_frame_index,
              display_duration |-> frame_duration]
    /\ UNCHANGED <<config, mgr, current_frame_index, background_frames,
                   gif_durations, frame_duration, elapsed, window_capture,
                   is_window_capture_mode, returned, loop_logged,
                   capture_released, scaling, drift, grab, telemetry_vars,
                   cleanup_pc, cleanup_returned, metrics_read, checker_vars,
                   monitor_vars>>

\* FrameManager.get_current_metrics
GetCurrentMetrics ==
    /\ mgr = "constructed"
    /\ cleanup_pc = "idle"
    /\ metrics_read' = current_metrics
    /\ UNCHANGED <<config, mgr, frame_vars, telemetry_vars, cleanup_pc,
                   cleanup_returned>>

\* cleanup(), line 393: self.metrics_running = False
CleanupStop ==
    /\ mgr = "constructed"
    /\ cleanup_pc = "idle"
    /\ metrics_running' = FALSE
    /\ cleanup_pc' = "test"
    /\ UNCHANGED <<config, mgr, frame_vars, metrics_thread, current_metrics,
                   timers, cleanup_returned, metrics_read>>

\* cleanup(), line 394: if self.metrics_thread
CleanupTest ==
    /\ cleanup_pc = "test"
    /\ cleanup_pc' = IF metrics_thread # 0 THEN "cancel" ELSE "capture"
    /\ UNCHANGED <<config, mgr, frame_vars, telemetry_vars, cleanup_returned,
                   metrics_read>>

\* cleanup(), line 395: self.metrics_thread.cancel()
CleanupCancel ==
    /\ cleanup_pc = "cancel"
    /\ timers' = cancel(metrics_thread)
    /\ cleanup_pc' = "clear"
    /\ UNCHANGED <<config, mgr, frame_vars, metrics_thread, metrics_running,
                   current_metrics, cleanup_returned, metrics_read>>

\* cleanup(), line 396: self.metrics_thread = None
CleanupClear ==
    /\ cleanup_pc = "clear"
    /\ metrics_thread' = 0
    /\ cleanup_pc' = "capture"
    /\ UNCHANGED <<config, mgr, frame_vars, metrics_running, current_metrics,
                   timers, cleanup_returned, metrics_read>>

\* cleanup(), lines 399-403: release the window capture (line 400 calls
\* WindowCapture.cleanup, line 401 drops the reference), then return
CleanupCapture ==
    /\ cleanup_pc = "capture"
    /\ capture_released' = IF window_capture # NoCapture
                           THEN capture_released + 1
                           ELSE capture_released
    /\ window_capture' = NoCapture
    /\ cleanup_pc' = "idle"
    /\ cleanup_returned' = TRUE
    /\ UNCHANGED <<config, mgr, current_frame_index, background_frames,
                   gif_durations, frame_duration, elapsed,
                   is_window_capture_mode, returned, loop_logged,
                   telemetry_vars, metrics_read, scaling, drift, grab, other_vars>>

---------------------------------------------------------------------------
(* The timer threads.  Timer t, once fired, runs _metrics_update_loop; the  *)
(* collection cycle it performs is numbered t (the constructor's is 0).     *)

TelemetryUnchanged ==
    UNCHANGED <<config, mgr, frame_vars, cleanup_pc, cleanup_returned,
                metrics_read>>

\* a timer function that arms the next timer before it collects
TimerFire_RearmFirst(t) ==
    /\ timers[t].st = "pending"
    /\ IF \E n \in TimerIds : timers[n].st = "unused"
       THEN LET n == CHOOSE n \in TimerIds :
                        /\ timers[n].st = "unused"
                        /\ \A m \in TimerIds : timers[m].st = "unused" => n <= m
            IN  /\ timers' = [timers EXCEPT ![t].st = "collect_cpu", ![n].st = "pending"]
                /\ metrics_thread' = n
       ELSE /\ timers' = [timers EXCEPT ![t].st = "collect_cpu"]
            /\ UNCHANGED metrics_thread
    /\ UNCHANGED <<metrics_running, current_metrics>>
    /\ TelemetryUnchanged

\* the interval of a started Timer runs out and its function is called
TimerFire(t) ==
    /\ timers[t].st = "pending"
    /\ timers' = [timers EXCEPT ![t].st = "collect_cpu"]
    /\ UNCHANGED <<metrics_thread, metrics_running, current_metrics>>
    /\ TelemetryUnchanged

\* a refresh that writes the CPU fields into the published dict in place
CollectCpu_InPlace(t) ==
    /\ timers[t].st = "collect_cpu"
    /\ \E collected \in BOOLEAN :
        /\ timers' = IF collected
                     THEN [timers EXCEPT ![t].st = "collect_gpu", ![t].cpu_data = t]
                     ELSE [timers EXCEPT ![t].st = "raised"]
        /\ current_metrics' = IF collected
                              THEN [current_metrics EXCEPT !.cpu = t]
                              ELSE current_metrics
    /\ UNCHANGED <<metrics_thread, metrics_running>>
    /\ TelemetryUnchanged

\* _get_current_metric, line 297: cpu_data = self.cpu_metrics.get_all_metrics()
CollectCpu(t) ==
    /\ timers[t].st = "collect_cpu"
    /\ \E collected \in BOOLEAN :
        timers' = IF collected
                  THEN [timers EXCEPT ![t].st = "collect_gpu", ![t].cpu_data = t]
                  ELSE [timers EXCEPT ![t].st = "raised"]
    /\ UNCHANGED <<metrics_thread, metrics_running, current_metrics>>
    /\ TelemetryUnchanged

\* a refresh that publishes the empty dict when the GPU collector raises
CollectGpu_ClearOnError(t) ==
    /\ timers[t].st = "collect_gpu"
    /\ \E collected \in BOOLEAN :
        /\ timers' = IF collected
                     THEN [timers EXCEPT ![t].st = "publish",
                                         ![t].new_metrics = Snapshot(timers[t].cpu_data, t)]
                     ELSE [timers EXCEPT ![t].st = "raised"]
        /\ current_metrics' = IF collected THEN current_metrics ELSE EmptyMetrics
    /\ UNCHANGED <<metrics_thread, metrics_running>>
    /\ TelemetryUnchanged

\* _get_current_metric, lines 298-312: gpu_data, then the new dict;
\* _metrics_update_loop, line 288: new_metrics is that dict
CollectGpu(t) ==
    /\ timers[t].st = "collect_gpu"
    /\ \E collected \in BOOLEAN :
        timers' = IF collected
                  THEN [timers EXCEPT ![t].st = "publish",
                                      ![t].new_metrics = Snapshot(timers[t].cpu_data, t)]
                  ELSE [timers EXCEPT ![t].st = "raised"]
    /\ UNCHANGED <<metrics_thread, metrics_running, current_metrics>>
    /\ TelemetryUnchanged

\* _metrics_update_loop, line 289: self.current_metrics = new_metrics
Publish(t) ==
    /\ timers[t].st = "publish"
    /\ current_metrics' = timers[t].new_metrics
    /\ timers' = [timers EXCEPT ![t].st = "check"]
    /\ UNCHANGED <<metrics_thread, metrics_running>>
    /\ TelemetryUnchanged

\* _metrics_update_loop, line 290: if self.metrics_running
CheckRunning(t) ==
    /\ timers[t].st = "check"
    /\ timers' = [timers EXCEPT ![t].st = IF metrics_running THEN "create" ELSE "done"]
    /\ UNCHANGED <<metrics_thread, metrics_running, current_metrics>>
    /\ TelemetryUnchanged

\* _metrics_update_loop, line 291: self.metrics_thread = threading.Timer(...)
CreateTimer(t) ==
    /\ timers[t].st = "create"
    /\ \E n \in TimerIds :
        /\ timers[n].st = "unused"
        /\ \A m \in TimerIds : timers[m].st = "unused" => n <= m
        /\ timers' = [timers EXCEPT ![t].st = "start", ![n].st = "created"]
        /\ metrics_thread' = n
    /\ UNCHANGED <<metrics_running, current_metrics>>
    /\ TelemetryUnchanged

\* _metrics_update_loop, line 292: self.metrics_thread.start();
\* None has no start(), and a cancelled Timer starts without ever firing
StartTimer(t) ==
    /\ timers[t].st = "start"
    /\ timers' =
        IF metrics_thread = 0
        THEN [timers EXCEPT ![t].st = "raised"]
        ELSE IF timers[metrics_thread].st = "created"
        THEN [timers EXCEPT ![t].st = "done", ![metrics_thread].st = "pending"]
        ELSE [timers EXCEPT ![t].st = "done"]
    /\ UNCHANGED <<metrics_thread, metrics_running, current_metrics>>
    /\ TelemetryUnchanged

---------------------------------------------------------------------------
(* Specifications *)

Next ==
    \/ Construct
    \/ Tick
    \/ GetCurrentFrame
    \/ GetCurrentMetrics
    \/ CleanupStop
    \/ CleanupTest
    \/ CleanupCancel
    \/ CleanupClear
    \/ CleanupCapture
    \/ \E t \in TimerIds : TimerFire(t)
    \/ \E t \in TimerIds : CollectCpu(t)
    \/ \E t \in TimerIds : CollectGpu(t)
    \/ \E t \in TimerIds : Publish(t)
    \/ \E t \in TimerIds : CheckRunning(t)
    \/ \E t \in TimerIds : CreateTimer(t)
    \/ \E t \in TimerIds : StartTimer(t)

Spec == Init /\ [][Next]_vars

\* a statement executed on a timer thread (lines 287-312)
TimerThreadStep ==
    \E t \in TimerIds :
        \/ TimerFire(t)
        \/ CollectCpu(t)
        \/ CollectGpu(t)
        \/ Publish(t)
        \/ CheckRunning(t)
        \/ CreateTimer(t)
        \/ StartTimer(t)

\* the timer thread evaluates self.metrics_running (line 290)
TimerReadsRunningFlag == \E t \in TimerIds : CheckRunning(t)

\* the timer thread assigns self.metrics_thread (line 291) and reads it
\* back to start the new Timer (line 292)
TimerTouchesHandle == \E t \in TimerIds : CreateTimer(t) \/ StartTimer(t)

\* a poll that finds the frame interval elapsed
PollDue == Due(elapsed, frame_duration) /\ GetCurrentFrame

\* the polling thread does not stall inside cleanup()
CleanupStep == CleanupTest \/ CleanupCancel \/ CleanupClear \/ CleanupCapture

\* time passes and polls at least one frame duration apart keep coming
FairSpec ==
    Init /\ [][Next]_vars
    /\ WF_vars(Tick) /\ WF_vars(CleanupStep) /\ SF_vars(PollDue)

---------------------------------------------------------------------------
(* The scale transform on its own: a WindowCapture object built with a     *)
(* target size and a scale factor of its caller's choice scales the images *)
(* handed to it.                                                            *)

\* WindowCapture(window_title, target_width, target_height, fps, scale_factor)
\* on a platform with a backend; no FrameManager is involved
ScaleInit ==
    /\ config = CaptureBase
    /\ mgr = "new"
    /\ current_frame_index = 0
    /\ background_frames = <<>>
    /\ gif_durations = <<>>
    /\ frame_duration = Seconds(DEFAULT_FRAME_DURATION, 1)
    /\ elapsed = MaxElapsed
    /\ metrics_thread = 0
    /\ metrics_running = FALSE
    /\ \E size \in TargetSizes, s \in ScalePoints :
          window_capture = WindowCapture_init(size[1], size[2], 30, s)
    /\ is_window_capture_mode = FALSE
    /\ current_metrics = EmptyMetrics
    /\ timers = [t \in TimerIds |-> NewTimer]
    /\ cleanup_pc = "idle"
    /\ cleanup_returned = FALSE
    /\ returned = NoResult
    /\ loop_logged = FALSE
    /\ metrics_read = EmptyMetrics
    /\ capture_released = 0
    /\ scaling = NoScaling
    /\ drift = OnTime
    /\ grab = NoGrab
    /\ OtherInit

\* one call self._apply_scaling(img) on a grabbed image of any size and mode
ApplyScalingCall ==
    /\ \E raw \in RawImages :
        LET img == Buffer(raw.w, raw.h, raw.mode, "capture", 0) IN
        scaling' = [input |-> img, steps |-> _apply_scaling_steps(window_capture, img)]
    /\ UNCHANGED <<config, mgr, current_frame_index, background_frames,
                   gif_durations, frame_duration, elapsed, window_capture,
                   is_window_capture_mode, returned, loop_logged,
                   capture_released, drift, grab, telemetry_vars, cleanup_pc,
                   cleanup_returned, metrics_read, other_vars>>

ScaleNext == ApplyScalingCall

ScaleSpec == ScaleInit /\ [][ScaleNext]_vars

---------------------------------------------------------------------------
(* Looping against the wall clock: a materialized source with at least one *)
(* frame and frame durations of whole, positive milliseconds is loaded and *)
(* then polled at arbitrary times.                                          *)

DriftConfigs ==
    { c \in Configs :
        /\ c.background_type \in {"IMAGE", "GIF", "VIDEO", "IMAGE_COLLECTION"}
        /\ c.n_metrics = 0
        /\ \A i \in 1..Len(c.gif_ms) : c.gif_ms[i] # 0
        /\ (c.background_type = "VIDEO" /\ c.has_opencv /\ c.ext_supported) =>
              (c.fps > 0 /\ c.frame_count > 0 /\ c.readable > 0) }

DriftInit == Init /\ config \in DriftConfigs

DriftNext ==
    \/ Construct
    \/ Tick
    \/ TimedPoll

DriftSpec == DriftInit /\ [][DriftNext]_vars

---------------------------------------------------------------------------
(* Live capture under observation: every poll of a window capture source   *)
(* is recorded with the outcome of its capture_frame() call.                *)

\* most polls the record counts
MaxPolls == 3

\* window capture configurations whose capture object is created
LiveConfigs ==
    { c \in WindowCaptureConfigs \cup MetricsConfigs :
        /\ c.background_type = "WINDOW_CAPTURE"
        /\ c.n_metrics = 0
        /\ c.scale_factor \in {100, 150} }

CaptureInit == Init /\ config \in LiveConfigs

\* a get_current_frame() call in window capture mode, lines 334-354,
\* recorded with what its capture_frame() call delivered
ObservedPoll ==
    /\ mgr = "constructed"
    /\ cleanup_pc = "idle"
    /\ is_window_capture_mode
    /\ window_capture # NoCapture
    /\ \E present \in {FALSE, config.window_exists}, grabbed \in BOOLEAN,
          raw \in RawImages :
          LET captured_frame == capture_frame(window_capture, present, grabbed, raw) IN
          /\ CaptureBranch(present, grabbed, raw)
          /\ grab' = [polls |-> IF grab.polls < MaxPolls THEN grab.polls + 1
                                                         ELSE MaxPolls,
                      due |-> Due(elapsed, frame_duration),
                      ok |-> captured_frame # NoImage,
                      last_good |-> IF captured_frame # NoImage THEN captured_frame
                                                                ELSE grab.last_good]
    /\ UNCHANGED <<config, mgr, background_frames, gif_durations, window_capture,
                   is_window_capture_mode, telemetry_vars, cleanup_pc,
                   cleanup_returned, metrics_read, capture_released, scaling,
                   drift, other_vars>>

CaptureNext ==
    \/ Construct
    \/ Tick
    \/ ObservedPoll

CaptureSpec == CaptureInit /\ [][CaptureNext]_vars

---------------------------------------------------------------------------
(* The frame information call: a manager is constructed, polled, and asked *)
(* for (frame index, display duration).                                     *)

InfoNext ==
    \/ Construct
    \/ Tick
    \/ GetCurrentFrame
    \/ GetCurrentFrameInfo

InfoSpec == Init /\ [][InfoNext]_vars

---------------------------------------------------------------------------
(* The system checker: a SystemChecker is created in some environment and  *)
(* its checks are called.                                                   *)

ManagerUnchanged ==
    UNCHANGED <<config, mgr, current_frame_index, background_frames,
                gif_durations, frame_duration, elapsed, window_capture,
                is_window_capture_mode, returned, loop_logged,
                capture_released, scaling, drift, grab, telemetry_vars, cleanup_pc,
                cleanup_returned, metrics_read>>

CheckerInit ==
    /\ config = BaseConfig
    /\ ManagerInit
    /\ frame_info = NoInfo
    /\ imports \in ImportOutcomes
    /\ checks = <<>>
    /\ MonitorIdle

CheckPythonVersion ==
    /\ Len(checks) < MaxChecks
    /\ \E recent \in BOOLEAN : checks' = check_python_version(checks, recent)
    /\ UNCHANGED <<frame_info, imports, monitor_vars>>
    /\ ManagerUnchanged

CheckDependencies ==
    /\ Len(checks) < MaxChecks
    /\ checks' = check_dependencies(checks, imports)
    /\ UNCHANGED <<frame_info, imports, monitor_vars>>
    /\ ManagerUnchanged

CheckerNext ==
    \/ CheckPythonVersion
    \/ CheckDependencies

CheckerSpec == CheckerInit /\ [][CheckerNext]_vars

---------------------------------------------------------------------------
(* The iStripper monitor (integrations/istripper_manager.py): one thread    *)
(* calls start_monitoring() and stop_monitoring(); each start creates a     *)
(* thread that runs _monitor_loop; iStripper comes and goes.                *)

MonitorInit ==
    /\ config = BaseConfig
    /\ ManagerInit
    /\ frame_info = NoInfo
    /\ CheckerIdle
    /\ ManagerFields
    /\ process_running \in BOOLEAN

MonitorUnchanged ==
    /\ UNCHANGED <<frame_info, checker_vars>>
    /\ ManagerUnchanged

\* the threads whose _monitor_loop has been entered and has not returned
Alive == { l \in LoopIds : monitor_loops[l].pc \notin {"unused", "exited"} }

\* the threads that are inside a callback
InCallback == { l \in LoopIds : monitor_loops[l].pc \in {"on_started", "on_stopped"} }

\* iStripper is started or closed
ProcessChanges ==
    /\ process_running' = ~process_running
    /\ UNCHANGED <<should_monitor, monitor_thread, is_running, on_started_callback,
                   on_stopped_callback, monitor_loops, caller, stopped>>
    /\ MonitorUnchanged

\* start_monitoring(on_started, on_stopped), lines 217-236
StartMonitoring ==
    /\ caller = "idle"
    /\ \E on_started \in BOOLEAN, on_stopped \in BOOLEAN :
        IF should_monitor
        THEN /\ stopped' = FALSE
             /\ UNCHANGED <<should_monitor, monitor_thread, on_started_callback,
                            on_stopped_callback, monitor_loops>>
        ELSE \E l \in LoopIds :
                /\ monitor_loops[l].pc = "unused"
                /\ \A m \in LoopIds : monitor_loops[m].pc = "unused" => l <= m
                /\ on_started_callback' = on_started
                /\ on_stopped_callback' = on_stopped
                /\ should_monitor' = TRUE
                /\ monitor_thread' = l
                /\ monitor_loops' = [monitor_loops EXCEPT ![l].pc = "enter"]
                /\ stopped' = FALSE
    /\ UNCHANGED <<is_running, process_running, caller>>
    /\ MonitorUnchanged

\* stop_monitoring, lines 240-242: clear the flag, then join the thread
\* when there is one
StopMonitoring ==
    /\ caller = "idle"
    /\ should_monitor' = FALSE
    /\ IF monitor_thread # 0
       THEN /\ caller' = "joining"
            /\ UNCHANGED stopped
       ELSE /\ stopped' = TRUE
            /\ UNCHANGED caller
    /\ UNCHANGED <<monitor_thread, is_running, on_started_callback,
                   on_stopped_callback, monitor_loops, process_running>>
    /\ MonitorUnchanged

\* line 242: join(timeout=5) returns because the thread has ended
JoinReturns ==
    /\ caller = "joining"
    /\ monitor_loops[monitor_thread].pc = "exited"
    /\ caller' = "idle"
    /\ stopped' = TRUE
    /\ UNCHANGED <<should_monitor, monitor_thread, is_running, on_started_callback,
                   on_stopped_callback, monitor_loops, process_running>>
    /\ MonitorUnchanged

\* line 242: join(timeout=5) returns after five seconds with the thread
\* still alive.  The loop sleeps two seconds and probes quickly; only a
\* callback, which is the caller's code, can hold it for so long.
JoinTimeout ==
    /\ caller = "joining"
    /\ monitor_thread \in InCallback
    /\ caller' = "idle"
    /\ stopped' = TRUE
    /\ UNCHANGED <<should_monitor, monitor_thread, is_running, on_started_callback,
                   on_stopped_callback, monitor_loops, process_running>>
    /\ MonitorUnchanged

\* _monitor_loop, line 248: last_state = self.is_process_running()
LoopEnter(l) ==
    /\ monitor_loops[l].pc = "enter"
    /\ monitor_loops' = [monitor_loops EXCEPT ![l].pc = "test",
                                              ![l].last_state = process_running]
    /\ UNCHANGED <<should_monitor, monitor_thread, is_running, on_started_callback,
                   on_stopped_callback, process_running, caller, stopped>>
    /\ MonitorUnchanged

\* _monitor_loop, line 250: while self.should_monitor
LoopTest(l) ==
    /\ monitor_loops[l].pc = "test"
    /\ monitor_loops' = [monitor_loops EXCEPT
                            ![l].pc = IF should_monitor THEN "probe" ELSE "exited"]
    /\ UNCHANGED <<should_monitor, monitor_thread, is_running, on_started_callback,
                   on_stopped_callback, process_running, caller, stopped>>
    /\ MonitorUnchanged

\* _monitor_loop, lines 252-274: probe, compare with last_state, set
\* is_running and enter the callback when there is one; without a callback
\* to call go on to lines 276-277
LoopProbe(l) ==
    /\ monitor_loops[l].pc = "probe"
    /\ LET current_state == process_running
           last_state == monitor_loops[l].last_state
           came == current_state /\ ~last_state
           went == ~current_state /\ last_state
       IN
       /\ is_running' = IF came THEN TRUE ELSE IF went THEN FALSE ELSE is_running
       /\ monitor_loops' =
            IF came /\ on_started_callback
            THEN [monitor_loops EXCEPT ![l].pc = "on_started",
                                       ![l].current_state = current_state]
            ELSE IF went /\ on_stopped_callback
            THEN [monitor_loops EXCEPT ![l].pc = "on_stopped",
                                       ![l].current_state = current_state]
            ELSE [monitor_loops EXCEPT ![l].pc = "sleep",
                                       ![l].current_state = current_state,
                                       ![l].last_state = current_state]
    /\ UNCHANGED <<should_monitor, monitor_thread, on_started_callback,
                   on_stopped_callback, process_running, caller, stopped>>
    /\ MonitorUnchanged

\* the callback returns or raises (lines 259-262, 269-272), then line 276:
\* last_state = current_state
CallbackReturns(l) ==
    /\ l \in InCallback
    /\ monitor_loops' = [monitor_loops EXCEPT
                            ![l].pc = "sleep",
                            ![l].last_state = monitor_loops[l].current_state]
    /\ UNCHANGED <<should_monitor, monitor_thread, is_running, on_started_callback,
                   on_stopped_callback, process_running, caller, stopped>>
    /\ MonitorUnchanged

\* line 277: time.sleep(2) is over
LoopWakes(l) ==
    /\ monitor_loops[l].pc = "sleep"
    /\ monitor_loops' = [monitor_loops EXCEPT ![l].pc = "test"]
    /\ UNCHANGED <<should_monitor, monitor_thread, is_running, on_started_callback,
                   on_stopped_callback, process_running, caller, stopped>>
    /\ MonitorUnchanged

MonitorNext ==
    \/ ProcessChanges
    \/ StartMonitoring
    \/ StopMonitoring
    \/ JoinReturns
    \/ JoinTimeout
    \/ \E l \in LoopIds : LoopEnter(l)
    \/ \E l \in LoopIds : LoopTest(l)
    \/ \E l \in LoopIds : LoopProbe(l)
    \/ \E l \in LoopIds : CallbackReturns(l)
    \/ \E l \in LoopIds : LoopWakes(l)

MonitorSpec == MonitorInit /\ [][MonitorNext]_vars

---------------------------------------------------------------------------
(* Properties *)

Constructed == mgr = "constructed"

\* a source backed by a frame set: every kind but the window capture
Materialized == Constructed /\ config.background_type # "WINDOW_CAPTURE"

OutputSized(img) ==
    /\ img.w = config.output_width
    /\ img.h = config.output_height
    /\ img.mode = "RGBA"

\* C1: every buffer get_current_frame() returns is output_width x
\* output_height in RGBA, be it a materialized frame, the placeholder or a
\* live capture; and the capture object scales a grab of any size to that
\* size under every scale factor.
C1_OutputSized ==
    /\ returned.kind = "frame" => OutputSized(returned.frame)
    /\ window_capture # NoCapture =>
          \A s \in ScaleFactors, raw \in RawImages :
              OutputSized(_apply_scaling([window_capture EXCEPT !.scale_factor = s],
                                         Buffer(raw.w, raw.h, raw.mode, "capture", 0)))

\* C1 witness: a poll returned a live capture
C1_Witness ==
    /\ returned.kind = "frame"
    /\ returned.frame.origin = "capture"

\* C2: for a materialized source the frame index is always a valid index of
\* the frame set: 0 <= current_frame_index < len(background_frames).
C2_IndexValid ==
    Materialized =>
        /\ 0 <= current_frame_index
        /\ current_frame_index < Len(background_frames)

\* C3: once construction has succeeded get_current_frame() never raises.
C3_NeverRaises == returned.kind \in {"none", "frame"}

\* C4: once cleanup() has returned no telemetry refresh is in progress and
\* no refresh timer is pending.
C4_StoppedAfterCleanup ==
    cleanup_returned =>
        \A t \in TimerIds : timers[t].st \notin Running \cup {"created", "pending"}

\* C5: the published snapshot, and the snapshot a reader obtained, hold CPU
\* fields and GPU fields of one and the same collection cycle.
C5_SnapshotFromOneCycle ==
    /\ current_metrics.cpu = current_metrics.gpu
    /\ metrics_read.cpu = metrics_read.gpu

\* C5 witness: a reader holds the published snapshot of an earlier cycle
\* while a refresh has collected the CPU data of the next one
C5_Witness ==
    \E t \in TimerIds :
        /\ timers[t].st = "collect_gpu"
        /\ timers[t].cpu_data = t
        /\ metrics_read = current_metrics
        /\ metrics_read.cpu \notin {-1, t}

C7_DurationPositive ==
    Constructed => (frame_duration.num > 0 /\ frame_duration.den > 0)

\* C8: a successfully constructed manager of a non-capture kind has a
\* non-empty frame set.
C8_FramesNonEmpty == Materialized => Len(background_frames) > 0

\* C9: for a static image every poll returns the one frame of the frame set
\* and the index stays 0.
C9_StaticImageFixed ==
    (Constructed /\ config.background_type = "IMAGE") =>
        /\ current_frame_index = 0
        /\ Len(background_frames) = 1
        /\ returned.kind # "none" =>
              /\ returned.kind = "frame"
              /\ returned.frame = background_frames[1]
              /\ returned.frame.origin = "file"
              /\ returned.frame.idx = 0

\* C9 witness: a poll of a static image found the duration elapsed
C9_Witness ==
    /\ config.background_type = "IMAGE"
    /\ returned.kind = "frame"
    /\ returned.due

\* C10: when the target window of a window capture is never found, every
\* poll returns the black output-sized placeholder.
C10_MissingWindowPlaceholder ==
    (config.background_type = "WINDOW_CAPTURE" /\ ~config.window_exists
        /\ returned.kind # "none") =>
        /\ returned.kind = "frame"
        /\ returned.frame = black_image(config.output_width, config.output_height)

\* C10 witness: a poll before the pacing interval elapsed, window missing,
\* capture object still alive
C10_Witness ==
    /\ config.background_type = "WINDOW_CAPTURE"
    /\ ~config.window_exists
    /\ window_capture # NoCapture
    /\ returned.kind = "frame"
    /\ ~returned.due


\* C11: for an animated image the effective frame duration is the authored
\* duration of the frame now shown (the reader's default where the frame
\* carries none): before any advance that of frame 0, after an advance that
\* of the frame entered and not of the frame left, wraparound included; and
\* the frame a poll returns is the frame that duration belongs to.
C11_DurationOfFrameShown ==
    (Constructed /\ config.background_type = "GIF") =>
        /\ current_frame_index < Len(config.gif_ms)
        /\ frame_duration = _gif_duration(config.gif_ms[current_frame_index + 1])
        /\ returned.kind = "frame" => returned.frame.idx = current_frame_index

\* C11 witness: a GIF whose two frames differ in duration went from the last
\* frame back to frame 0 on a due poll
C11_Witness ==
    /\ Constructed
    /\ config.background_type = "GIF"
    /\ Len(config.gif_ms) = 2
    /\ _gif_duration(config.gif_ms[1]) # _gif_duration(config.gif_ms[2])
    /\ loop_logged
    /\ returned.kind = "frame"
    /\ returned.due
    /\ current_frame_index = 0


\* the refresh run by timer t ended in _get_current_metric's "raise e"
\* (line 315), before it had a dict to publish
CollectionRaised(t) ==
    /\ timers[t].st = "raised"
    /\ timers[t].new_metrics = EmptyMetrics

\* C12: when a collector raises inside the background refresh the refresh
\* cycle ends there: the step that raises changes neither current_metrics
\* nor anything else of the manager, the failed cycle is never published,
\* no timer is created after it, and later get_current_frame() and
\* get_current_metrics() calls return a frame and the published snapshot.
C12_RefreshEndsOnCollectorError ==
    /\ [](\A t \in TimerIds : CollectionRaised(t) =>
            /\ \A n \in TimerIds : n > t => timers[n].st = "unused"
            /\ current_metrics.cpu # t /\ current_metrics.gpu # t
            /\ metrics_read.cpu # t /\ metrics_read.gpu # t
            /\ returned.kind \in {"none", "frame"})
    /\ [][\A t \in TimerIds :
            (timers[t].st \in {"collect_cpu", "collect_gpu"} /\ timers'[t].st = "raised")
                => UNCHANGED <<config, mgr, frame_vars, current_metrics,
                               metrics_thread, metrics_running, metrics_read>>]_vars
    /\ [][((\E t \in TimerIds : CollectionRaised(t)) /\ metrics_read' # metrics_read)
            => metrics_read' = current_metrics]_vars

\* C12 witness: the second refresh raised in a collector; the snapshot of
\* the first one is still published, a reader holds it and a poll returned
\* a frame
C12_Witness ==
    /\ CollectionRaised(2)
    /\ timers[2].cpu_data = 2
    /\ current_metrics = Snapshot(1, 1)
    /\ metrics_read = current_metrics
    /\ returned.kind = "frame"


\* C13: cleanup() is idempotent: no step of a call made after an earlier
\* call has returned changes any field of the manager, its timers or its
\* capture object, and WindowCapture.cleanup() runs at most once.  (No
\* statement of cleanup() can raise out of it: lines 392-403 sit in a try
\* whose handler only logs.)
C13_CleanupIdempotent ==
    /\ [](capture_released <= 1)
    /\ [][(cleanup_returned /\ cleanup_pc' # cleanup_pc) =>
            UNCHANGED <<config, mgr, frame_vars, telemetry_vars,
                        cleanup_returned, metrics_read>>]_vars


\* C14: with no metric overlay descriptor in the configuration no telemetry
\* timer is ever created or started and no collection ever runs, during
\* construction, polling and cleanup alike; the telemetry flag stays off and
\* current_metrics, and so every get_current_metrics() result, is the empty
\* snapshot.
C14_NoOverlaysNoTelemetry ==
    config.n_metrics = 0 =>
        /\ \A t \in TimerIds : timers[t] = NewTimer
        /\ metrics_thread = 0
        /\ ~metrics_running
        /\ current_metrics = EmptyMetrics
        /\ metrics_read = EmptyMetrics

\* C14 witness: a manager without overlays was constructed, polled and
\* cleaned up
C14_Witness ==
    /\ config.n_metrics = 0
    /\ Constructed
    /\ returned.kind = "frame"
    /\ cleanup_returned


\* a video configuration the decoder cannot take: OpenCV is not installed
\* or the extension is not a supported video format
VideoFallback ==
    /\ config.background_type = "VIDEO"
    /\ ~(config.has_opencv /\ config.ext_supported)

\* C15: a video configuration whose decode backend is unavailable or whose
\* extension is unsupported is loaded exactly as a static image of the same
\* path: construction succeeds whenever that static-image load succeeds,
\* and then the frame set is the one resized frame of the file and the
\* effective duration is the default 2.0 s; it fails only where the
\* static-image load itself fails (path missing, file not an image).
C15_VideoFallsBackToStaticImage ==
    (VideoFallback /\ mgr # "new") =>
        \E raws \in [1..MaxFrames -> RawImages] :
            LET r == _load_static_image(raws) IN
            /\ Constructed <=> r.ok
            /\ r.ok <=> (config.path_exists /\ config.image_ok)
            /\ Constructed =>
                  /\ background_frames = r.background_frames
                  /\ Len(background_frames) = 1
                  /\ OutputSized(background_frames[1])
                  /\ frame_duration = Seconds(DEFAULT_FRAME_DURATION, 1)
                  /\ gif_durations = <<>>
                  /\ ~is_window_capture_mode
                  /\ returned.kind # "none" => returned = Frame(background_frames[1],
                                                                 returned.due)

\* C15 witness: a video file with a supported extension, OpenCV missing,
\* was loaded as one frame and polled after the 2 s had passed
C15_Witness ==
    /\ VideoFallback
    /\ config.ext_supported
    /\ Constructed
    /\ returned.kind = "frame"
    /\ returned.due


\* the configurations the loaders reject: the background path (file, or
\* directory of a collection) does not exist for a kind that reads one, the
\* collection directory holds no image, the window capture has no title
FatalConfiguration ==
    \/ /\ config.background_type \in {"IMAGE", "GIF", "VIDEO", "IMAGE_COLLECTION"}
       /\ ~config.path_exists
    \/ /\ config.background_type = "IMAGE_COLLECTION"
       /\ config.n_files = 0
    \/ /\ config.background_type = "WINDOW_CAPTURE"
       /\ ~config.has_title

\* C16: each fatal configuration aborts construction: once __init__ has
\* run on a configuration with a missing background path, an image
\* collection without images or a window capture without window title, it
\* has raised, and no frame set and no capture object exists.
C16_FatalConfigurationAborts ==
    (FatalConfiguration /\ mgr # "new") =>
        /\ mgr = "failed"
        /\ background_frames = <<>>
        /\ window_capture = NoCapture
        /\ ~is_window_capture_mode

\* C16 witness: construction failed for a window capture that lacks only
\* the window title
C16_Witness ==
    /\ mgr = "failed"
    /\ config.background_type = "WINDOW_CAPTURE"
    /\ ~config.has_title
    /\ config.has_window_capture
    /\ _initialize_capture_backend # "Error"


\* C17: a window capture manager is constructed only when its platform
\* backend can both locate and grab the window: a live capture object's
\* lookup finds a window that is on screen, so no manager exists whose
\* every poll fails for want of a lookup capability alone.
C17_ConstructedBackendCanLocate ==
    (Constructed /\ config.background_type = "WINDOW_CAPTURE"
        /\ window_capture # NoCapture) =>
        find_window(window_capture, TRUE)


\* C18: for a window capture the scale factor of the display configuration
\* is the scale factor the capture object applies to every frame it grabs
\* for get_current_frame().
C18_ConfiguredScaleApplied ==
    (Constructed /\ config.background_type = "WINDOW_CAPTURE"
        /\ window_capture # NoCapture) =>
        window_capture.scale_factor = config.scale_factor


\* what the scale transform is said to do, for the call recorded in scaling:
\* the returned image has the target size in RGBA; s = 1 resizes directly;
\* s > 1 resizes to (floor(w*s), floor(h*s)) and crops at
\* ((scaled_w - w) div 2, (scaled_h - h) div 2); s < 1 resizes likewise and
\* pastes at ((w - scaled_w) div 2, (h - scaled_h) div 2) on an opaque black
\* canvas; 320x240 gives 640x480 and (160, 120) for s = 2.0, 160x120 and
\* (80, 60) for s = 0.5
ScaleTransformAsStated ==
    LET s == window_capture.scale_factor
        w == window_capture.target_width
        h == window_capture.target_height
        scaled_w == (w * s) \div 100
        scaled_h == (h * s) \div 100
        steps == scaling.steps
    IN
    /\ steps.img.w = w /\ steps.img.h = h /\ steps.img.mode = "RGBA"
    /\ s = 100 => steps.op = "resize"
    /\ s > 100 =>
          /\ steps.op = "crop"
          /\ steps.scaled_width = scaled_w /\ steps.scaled_height = scaled_h
          /\ steps.x = (scaled_w - w) \div 2 /\ steps.y = (scaled_h - h) \div 2
    /\ s < 100 =>
          /\ steps.op = "paste"
          /\ steps.scaled_width = scaled_w /\ steps.scaled_height = scaled_h
          /\ steps.x = (w - scaled_w) \div 2 /\ steps.y = (h - scaled_h) \div 2
          /\ steps.canvas = black_image(w, h)
    /\ (w = 320 /\ h = 240 /\ s = 200) =>
          /\ steps.scaled_width = 640 /\ steps.scaled_height = 480
          /\ steps.x = 160 /\ steps.y = 120
    /\ (w = 320 /\ h = 240 /\ s = 50) =>
          /\ steps.scaled_width = 160 /\ steps.scaled_height = 120
          /\ steps.x = 80 /\ steps.y = 60

EveryDurationAtLeast(ms) ==
    /\ Milliseconds(frame_duration) >= ms
    /\ \A i \in 1..Len(gif_durations) : Milliseconds(gif_durations[i]) >= ms

\* C20: a materialized source polled at arbitrary times does not drift: the
\* lateness of a poll does not add up, so each advance happens no later
\* than one poll gap (the longest time between two polls so far) after load
\* time plus the durations of the frames shown so far.  The claim is taken
\* for polls that come at least once per frame duration: a poll advances
\* one frame at most, so with wider gaps any schedule falls behind.
C20_NoDrift ==
    (Materialized /\ EveryDurationAtLeast(drift.widest)) =>
        drift.late <= drift.widest


\* C21: in every state of a constructed manager get_current_frame_info()
\* returns the pair (current_frame_index, display duration) and does not
\* raise.
C21_FrameInfoReturns ==
    frame_info.kind # "none" =>
        /\ frame_info.kind = "info"
        /\ frame_info.index = current_frame_index
        /\ frame_info.display_duration = frame_duration


\* the names a sequence of names holds
Names(s) == { s[i] : i \in 1..Len(s) }

\* the pip package names of the required packages and of hid
PipNames == { required_packages[i][2] : i \in 1..Len(required_packages) } \cup {"hid"}

\* C22: check_dependencies() appends exactly one check, named 'Required
\* Dependencies', to the checks collected so far; the check has passed iff
\* every required package, hid included, imports; and when hid fails with
\* an ImportError that names its native library the message carries the
\* native-library label while the fix hint lists plain pip package names
\* only, hid among them.
C22_DependencyCheck ==
    /\ [][CheckDependencies =>
            /\ Len(checks') = Len(checks) + 1
            /\ SubSeq(checks', 1, Len(checks)) = checks
            /\ checks'[Len(checks')].name = "Required Dependencies"]_vars
    /\ [](\A i \in 1..Len(checks) :
            checks[i].name = "Required Dependencies" =>
                /\ checks[i].passed <=> \A p \in ImportNames : imports[p].ok
                /\ Names(checks[i].fix_hint.names) \subseteq PipNames
                /\ (~imports["hid"].ok /\ imports["hid"].err \cap NativeMarkers # {}) =>
                      /\ NativeLabel \in Names(checks[i].message.names)
                      /\ "hid" \in Names(checks[i].fix_hint.names))

\* C22 witness: opencv-python is missing and hid cannot load hidapi; the
\* dependency check was appended after the Python version check
C22_Witness ==
    /\ ~imports["cv2"].ok
    /\ imports["hid"].err = {"hidapi", "dll"}
    /\ Len(checks) = 2
    /\ checks[1].name = "Python Version"
    /\ checks[2].name = "Required Dependencies"
    /\ checks[2].message.names = <<"opencv-python", NativeLabel>>
    /\ checks[2].fix_hint.names = <<"opencv-python", "hid">>


\* C23: a poll of a materialized source at time t: when t - frame_start_time
\* >= frame_duration, frame_start_time becomes t and the index becomes
\* (index + 1) mod frame_count; otherwise index and frame_start_time stay;
\* either way the poll returns frames[index] for the index after the poll.
C23_PollTransition ==
    [][(Materialized /\ GetCurrentFrame) =>
        LET n == Len(background_frames) IN
        /\ n > 0
        /\ IF Due(elapsed, frame_duration)
           THEN /\ elapsed' = 0
                /\ current_frame_index' = (current_frame_index + 1) % n
           ELSE UNCHANGED <<elapsed, current_frame_index>>
        /\ returned'.kind = "frame"
        /\ current_frame_index' < n
        /\ returned'.frame = background_frames[current_frame_index' + 1]]_vars


\* the black placeholder of a window capture source
CapturePlaceholder == black_image(config.output_width, config.output_height)

\* C24: a poll of a live capture source that finds the pacing interval
\* elapsed and whose capture delivers nothing returns the black
\* placeholder, never the buffer of an earlier successful capture.
C24_DueFailureGivesPlaceholder ==
    (grab.polls > 0 /\ grab.due /\ ~grab.ok) =>
        /\ returned.kind = "frame"
        /\ returned.frame = CapturePlaceholder
        /\ returned.frame # grab.last_good

\* C24 witness: an earlier capture succeeded, then a poll found the interval
\* elapsed and its capture delivered nothing
C24_Witness ==
    /\ grab.polls > 1
    /\ grab.due
    /\ ~grab.ok
    /\ grab.last_good # NoImage
    /\ returned.kind = "frame"
    /\ returned.due


\* C25: a poll of a live capture source before the pacing interval elapsed
\* attempts a fresh capture anyway; when that fails the poll returns the
\* last successfully captured buffer if there is one, and the placeholder
\* only when no capture has ever succeeded.
C25_EarlyFailureGivesLastCapture ==
    (grab.polls > 0 /\ ~grab.due) =>
        /\ returned.kind = "frame"
        /\ returned.frame = IF grab.last_good # NoImage THEN grab.last_good
                                                        ELSE CapturePlaceholder


\* the timers whose _metrics_update_loop call is executing
Refreshing == { t \in TimerIds : timers[t].st \in Running }

\* the timers created or started whose interval has not run out
Waiting == { t \in TimerIds : timers[t].st \in {"created", "pending"} }

\* C26: telemetry refreshes never overlap: at every moment at most one
\* refresh is executing and at most one timer is pending, the next timer
\* being created only by a refresh that has completed its collection and
\* published the result.
C26_RefreshesNeverOverlap ==
    /\ [](Cardinality(Refreshing) <= 1 /\ Cardinality(Waiting) <= 1)
    /\ [][\A n \in TimerIds :
            (mgr = "constructed" /\ timers[n].st = "unused" /\ timers'[n].st # "unused") =>
                \E t \in TimerIds :
                    /\ timers[t].st = "create"
                    /\ Refreshing = {t}
                    /\ current_metrics = timers[t].new_metrics]_vars

\* C26 witness: the first refresh has completed and the timer it started is
\* executing the second
C26_Witness ==
    /\ timers[1].st = "done"
    /\ timers[2].st \in Running
    /\ current_metrics = Snapshot(1, 1)


\* the timer thread leaves the frame set, the schedule state and the capture
\* state alone
TimerKeepsOffFrames ==
    [][TimerThreadStep =>
        UNCHANGED <<current_frame_index, background_frames, gif_durations,
                    frame_duration, elapsed, window_capture,
                    is_window_capture_mode>>]_vars

\* C27: the telemetry snapshot is the only mutable state both the polling
\* thread and the timer thread access: the frame set, the schedule state,
\* the capture state, the timer handle and the running flag, all of which
\* the polling thread writes, are neither read nor written by a statement
\* of the timer thread.
C27_OnlySnapshotShared ==
    [][TimerThreadStep =>
        /\ UNCHANGED <<current_frame_index, background_frames, gif_durations,
                       frame_duration, elapsed, window_capture,
                       is_window_capture_mode, metrics_thread, metrics_running>>
        /\ ~TimerReadsRunningFlag
        /\ ~TimerTouchesHandle]_vars


\* C28: when construction fails while loading the background, telemetry
\* having been started because overlays are configured, no telemetry timer
\* is pending or running afterwards.
C28_FailedConstructionLeavesNoTimer ==
    (mgr = "failed" /\ HasMetricsConfigs) =>
        /\ Refreshing = {}
        /\ Waiting = {}


NoCallbackInvoked == InCallback' \subseteq InCallback

\* between calls at most one monitor loop is running
OneMonitorLoop == caller = "idle" => Cardinality(Alive) <= 1

\* C30: after any sequence of start_monitoring() and stop_monitoring()
\* calls at most one monitor loop is running, and once stop_monitoring()
\* has returned no on_started or on_stopped callback is invoked until
\* start_monitoring() is called again.
C30_OneLoopQuietAfterStop ==
    /\ []OneMonitorLoop
    /\ [][(stopped /\ stopped') => NoCallbackInvoked]_vars


\* once stop_monitoring() has returned no callback is invoked
QuietAfterStop == [][(stopped /\ stopped') => NoCallbackInvoked]_vars

===========================================================================
